---- MODULE Spec2Model ----
(***************************************************************************)
(* A model of SessionStorageInterface (src/src/index.ts): the adapter that *)
(* stores the keys of a storage-facade storage in window.sessionStorage,   *)
(* with a persisted keys array and an optional in-memory cache.            *)
(*                                                                         *)
(* Strings are TLC strings, so keyName, keysArrayName and the JSON texts   *)
(* are built by concatenation and read back character by character.       *)
(* JavaScript values are records tagged by t; an object or array held in   *)
(* memory is a reference [t |-> "ref"] into the heap, so that aliasing     *)
(* between the caller and the cache is something the model can show.       *)
(***************************************************************************)
EXTENDS Integers, Sequences, FiniteSets, TLC

VARIABLES
  sessionStorage,   \* window.sessionStorage: physical key -> string
  localStorage,     \* window.localStorage: physical key -> string
  inst,             \* the SessionStorageInterface objects, by instance id
  setup,            \* the Setup each instance is initialised with
  heap,             \* the objects in memory: address -> contents
  held,             \* the object the caller still holds a reference to
  last,             \* the last call: [op, i, key, index, before, ret, thrown,
                    \* fault], before being the number of keys a removing
                    \* call found
  order,            \* per instance: the keys set and not removed, by first set
  expected,         \* per instance: key -> the contents passed to its last set
  opsLeft,          \* how many more steps the caller takes (-1: no limit)
  world             \* what the caller passes and whether the store may fail:
                    \* [keys, values, objects, faulty]

vars == <<sessionStorage, localStorage, inst, setup, heap, held, last,
          order, expected, opsLeft, world>>

(***************************************************************************)
(* Bounds of the model.                                                    *)
(***************************************************************************)
\* the number of steps the caller takes in the two-instance specification
MaxOps == 5

(***************************************************************************)
(* JavaScript values.                                                      *)
(***************************************************************************)
Undefined == [t |-> "undefined"]
Null == [t |-> "null"]
Num(n) == [t |-> "number", n |-> n]
Str(s) == [t |-> "string", s |-> s]
Bool(b) == [t |-> "boolean", b |-> b]
Arr(items) == [t |-> "array", items |-> items]
Obj(names, vals) == [t |-> "object", names |-> names, vals |-> vals]
Ref(a) == [t |-> "ref", addr |-> a]
Err(msg) == [t |-> "error", msg |-> msg]

IsRef(v) == v.t = "ref"
IsErr(v) == v.t = "error"

\* the contents of a value: what a reference points to, or the value itself
Deref(h, v) == IF IsRef(v) THEN h[v.addr] ELSE v

\* the address a new object gets
NewAddr(h) == CHOOSE a \in 1..(Cardinality(DOMAIN h) + 1) : a \notin DOMAIN h

(***************************************************************************)
(* JSON.stringify and JSON.parse, on texts without white space (stringify  *)
(* writes none) and strings that need no escape.                           *)
(***************************************************************************)
Char(s, i) == SubSeq(s, i, i)

Digits == {"0", "1", "2", "3", "4", "5", "6", "7", "8", "9"}

DigitVal(c) == CHOOSE d \in 0..9 : ToString(d) = c

RECURSIVE JSONstringify(_)
RECURSIVE StringifyItems(_, _)
RECURSIVE StringifyMembers(_, _, _, _)

\* the items of an array from the j-th on; undefined is written as null
StringifyItems(items, j) ==
  IF j > Len(items) THEN ""
  ELSE (IF j > 1 THEN "," ELSE "")
       \o (IF items[j].t = "undefined" THEN "null" ELSE JSONstringify(items[j]))
       \o StringifyItems(items, j + 1)

\* the members of an object from the j-th on; an undefined member is left out
StringifyMembers(names, vals, j, first) ==
  IF j > Len(names) THEN ""
  ELSE IF vals[j].t = "undefined" THEN StringifyMembers(names, vals, j + 1, first)
  ELSE (IF first THEN "" ELSE ",")
       \o "\"" \o names[j] \o "\":" \o JSONstringify(vals[j])
       \o StringifyMembers(names, vals, j + 1, FALSE)

JSONstringify(v) ==
  CASE v.t = "null" -> "null"
    [] v.t = "number" -> ToString(v.n)
    [] v.t = "boolean" -> IF v.b THEN "true" ELSE "false"
    [] v.t = "string" -> "\"" \o v.s \o "\""
    [] v.t = "array" -> "[" \o StringifyItems(v.items, 1) \o "]"
    [] v.t = "object" -> "{" \o StringifyMembers(v.names, v.vals, 1, TRUE) \o "}"

RECURSIVE ScanQuote(_, _)
\* the position of the next double quote at or after i
ScanQuote(s, i) == IF Char(s, i) = "\"" THEN i ELSE ScanQuote(s, i + 1)

RECURSIVE ParseNumber(_, _, _)
ParseNumber(s, i, acc) ==
  IF i <= Len(s) /\ Char(s, i) \in Digits
  THEN ParseNumber(s, i + 1, 10 * acc + DigitVal(Char(s, i)))
  ELSE [val |-> Num(acc), pos |-> i]

RECURSIVE ParseValue(_, _)
RECURSIVE ParseItems(_, _, _)
RECURSIVE ParseMembers(_, _, _, _)

\* the items of an array, the first at i
ParseItems(s, i, acc) ==
  LET r == ParseValue(s, i)
      items == Append(acc, r.val)
  IN IF Char(s, r.pos) = "," THEN ParseItems(s, r.pos + 1, items)
     ELSE [val |-> Arr(items), pos |-> r.pos + 1]

\* the members of an object, the first one's name at i
ParseMembers(s, i, names, vals) ==
  LET e == ScanQuote(s, i + 1)
      r == ParseValue(s, e + 2)
      ns == Append(names, SubSeq(s, i + 1, e - 1))
      vs == Append(vals, r.val)
  IN IF Char(s, r.pos) = "," THEN ParseMembers(s, r.pos + 1, ns, vs)
     ELSE [val |-> Obj(ns, vs), pos |-> r.pos + 1]

\* the value that starts at position i of s, and the position after it
ParseValue(s, i) ==
  LET c == Char(s, i) IN
  CASE c = "n" -> [val |-> Null, pos |-> i + 4]
    [] c = "t" -> [val |-> Bool(TRUE), pos |-> i + 4]
    [] c = "f" -> [val |-> Bool(FALSE), pos |-> i + 5]
    [] c = "\"" -> LET e == ScanQuote(s, i + 1)
                   IN [val |-> Str(SubSeq(s, i + 1, e - 1)), pos |-> e + 1]
    [] c = "[" -> IF Char(s, i + 1) = "]" THEN [val |-> Arr(<<>>), pos |-> i + 2]
                  ELSE ParseItems(s, i + 1, <<>>)
    [] c = "{" -> IF Char(s, i + 1) = "}" THEN [val |-> Obj(<<>>, <<>>), pos |-> i + 2]
                  ELSE ParseMembers(s, i + 1, <<>>, <<>>)
    [] OTHER -> ParseNumber(s, i, 0)

JSONparse(s) == ParseValue(s, 1).val

\* obj.name, undefined when the object has no such member
Member(obj, name) ==
  IF \E j \in 1..Len(obj.names) : obj.names[j] = name
  THEN obj.vals[CHOOSE j \in 1..Len(obj.names) : obj.names[j] = name]
  ELSE Undefined

\* a string[] read from a parsed array of strings
RECURSIVE StringsOf(_, _)
StringsOf(items, j) ==
  IF j > Len(items) THEN <<>> ELSE <<items[j].s>> \o StringsOf(items, j + 1)

\* an array of strings as a value
RECURSIVE StrItems(_, _)
StrItems(keys, j) ==
  IF j > Len(keys) THEN <<>> ELSE <<Str(keys[j])>> \o StrItems(keys, j + 1)

StringifyKeys(keys) == JSONstringify(Arr(StrItems(keys, 1)))
ParseKeys(s) == StringsOf(JSONparse(s).items, 1)

(***************************************************************************)
(* The Web Storage API: a store maps string keys to strings; getItem       *)
(* answers null for a key it does not hold.                                *)
(***************************************************************************)
getItem(store, k) == IF k \in DOMAIN store THEN Str(store[k]) ELSE Null

setItem(store, k, v) ==
  [x \in DOMAIN store \cup {k} |-> IF x = k THEN v ELSE store[x]]

removeItem(store, k) == [x \in DOMAIN store \ {k} |-> store[x]]

\* structuredClone: a fresh object with the same contents; the mutant hands
\* back the reference it was given
structuredCloneSameRef(h, v) == [heap |-> h, val |-> v]

structuredClone(h, v) ==
  IF IsRef(v)
  THEN LET a == NewAddr(h)
       IN [heap |-> [x \in DOMAIN h \cup {a} |-> IF x = a THEN h[v.addr] ELSE h[x]],
           val |-> Ref(a)]
  ELSE [heap |-> h, val |-> v]

\* a parsed value in memory: an object or array is a fresh object
Materialize(h, tree) ==
  IF tree.t \in {"object", "array"}
  THEN LET a == NewAddr(h)
       IN [heap |-> [x \in DOMAIN h \cup {a} |-> IF x = a THEN tree ELSE h[x]],
           val |-> Ref(a)]
  ELSE [heap |-> h, val |-> tree]

(***************************************************************************)
(* SessionStorageInterface.                                                *)
(***************************************************************************)
defaultStorageName == "storage"
defaultUseCache == FALSE

EmptyMap == [k \in {} |-> Undefined]

\* the fields of a new SessionStorageInterface(); ready is the caller's
\* position: whether createStorage has called initSync on it and got Ok
NewInterface ==
  [ready |-> FALSE, storageName |-> "", keysArrayName |-> "",
   useCache |-> defaultUseCache, keysArrayCache |-> <<>>,
   keyValueCache |-> EmptyMap, isDeleted |-> FALSE]

Nullish(v) == v.t \in {"undefined", "null"}

OkValue == [t |-> "Ok"]
DeletedError == Err("This Storage was deleted!")
NotFoundError(name) == Err("'" \o name \o "' not found.")
ReservedKeyError(key) == Err("key '" \o key \o "' cannot be used.")

\* keysArray.includes(key)
IncludesNever(keys, key) == FALSE

Includes(keys, key) == \E j \in 1..Len(keys) : keys[j] = key

\* keysArray.push(key)
PushFront(keys, key) == <<key>> \o keys

Push(keys, key) == Append(keys, key)

\* keysArray.filter((savedKey) => savedKey !== key); the mutants keep every
\* key, or keep the key alone (=== for !==)
FilterKeepsAll(keys, key) == keys

FilterOnly(keys, key) == SelectSeq(keys, LAMBDA savedKey : savedKey = key)

RECURSIVE FilterRec(_, _)
FilterRec(keys, key) ==
  IF keys = <<>> THEN <<>>
  ELSE (IF Head(keys) = key THEN <<>> ELSE <<Head(keys)>>) \o FilterRec(Tail(keys), key)

FilterOut(keys, key) == FilterRec(keys, key)

\* keysArray.forEach((key) => window.sessionStorage.removeItem(this.keyName(key)))
RemoveNone(ss, storageName, keys) == ss

RECURSIVE RemoveRec(_, _, _)
RemoveRec(ss, storageName, keys) ==
  IF keys = <<>> THEN ss
  ELSE RemoveRec(removeItem(ss, storageName \o "-" \o Head(keys)), storageName, Tail(keys))

RemoveEach(ss, storageName, keys) == RemoveRec(ss, storageName, keys)

\* what a method leaves behind: the two stores, the instance, the heap, what
\* it returns or throws, whether that was thrown, and the failure of the
\* store that made it so (0: none)
Outcome(ss, ls, me, h, ret) ==
  [ss |-> ss, ls |-> ls, me |-> me, heap |-> h, ret |-> ret, thrown |-> FALSE,
   fault |-> 0]

\* what the host throws: s.fault = -1 is a store that cannot be used, every
\* access to it throws; s.fault = n > 0 is a store that is full at the n-th
\* setItem of the call; s.fault = 0 is a store that works
SecurityError == Err("The operation is insecure.")
QuotaExceededError == Err("The quota has been exceeded.")
SyntaxError == Err("JSON.parse: unexpected character")

ReadThrows(s) == s.fault = -1
WriteThrows(s, n) == s.fault = n \/ s.fault = -1
StoreError(s) == IF s.fault = -1 THEN SecurityError ELSE QuotaExceededError

\* a method that throws with the stores as they are in s; s is the host's
\* state the method runs in: [ss, ls, heap, fault]
Throws(s, me, err) ==
  [ss |-> s.ss, ls |-> s.ls, me |-> me, heap |-> s.heap, ret |-> err, thrown |-> TRUE,
   fault |-> IF s.fault # 0 /\ err = StoreError(s) THEN s.fault ELSE 0]

\* JSON.parse throws on a text that starts no value
ParseThrows(str) ==
  \/ Len(str) = 0
  \/ Char(str, 1) \notin Digits \cup {"n", "t", "f", "\"", "[", "{"}

keyName(me, key) == me.storageName \o "-" \o key

getKeysArray(s, me) ==
  IF ReadThrows(s) THEN [err |-> SecurityError, keys |-> <<>>, me |-> me]
  ELSE LET keysStr == getItem(s.ss, me.keysArrayName) IN
  IF keysStr.t = "null"
  THEN [err |-> NotFoundError(me.keysArrayName), keys |-> <<>>, me |-> me]
  ELSE IF ParseThrows(keysStr.s) THEN [err |-> SyntaxError, keys |-> <<>>, me |-> me]
  ELSE LET keys == ParseKeys(keysStr.s)
       IN [err |-> Undefined, keys |-> keys,
           me |-> IF me.useCache THEN [me EXCEPT !.keysArrayCache = keys] ELSE me]

\* const keysArray = this.useCache ? this.keysArrayCache : this.getKeysArray();
\* the mutant reads the store whatever useCache says
KeysArrayOfStore(s, me) == getKeysArray(s, me)

KeysArrayOf(s, me) ==
  IF me.useCache THEN [err |-> Undefined, keys |-> me.keysArrayCache, me |-> me]
  ELSE getKeysArray(s, me)

\* const isKeysArrayInStorage = keysStr !== null
IsKeysArrayInStorageNever(keysStr) == FALSE

IsKeysArrayInStorage(keysStr) == keysStr.t # "null"

\* catch (e) { return e as Error; }: the error is the value returned; the
\* mutant lets it through.  The facade throws an initialization error on the
\* first attempt to read or write, so no method of the instance is called
\* after it: the instance is not ready
CaughtRethrown(s, me, err) == Throws(s, [me EXCEPT !.ready = FALSE], err)

Caught(s, me, err) ==
  [Throws(s, [me EXCEPT !.ready = FALSE], err) EXCEPT !.thrown = FALSE]

initSync(s, me0, su) ==
  LET name == IF Nullish(su.name) THEN defaultStorageName ELSE su.name.s
      useCache == IF Nullish(su.useCache) THEN defaultUseCache ELSE su.useCache.b
      kan == "__" \o name \o "-keys-array"
      me == [me0 EXCEPT !.storageName = name, !.useCache = useCache,
                        !.keysArrayName = kan, !.ready = TRUE]
  IN IF ReadThrows(s) THEN Caught(s, me, SecurityError)
     ELSE LET keysStr == getItem(s.ss, kan)
              isKeysArrayInStorage == IsKeysArrayInStorage(keysStr)
          IN IF ~isKeysArrayInStorage
             THEN IF WriteThrows(s, 1) THEN Caught(s, me, StoreError(s))
                  ELSE Outcome(setItem(s.ss, kan, StringifyKeys(<<>>)),
                               s.ls, me, s.heap, OkValue)
             ELSE IF useCache
             THEN IF ParseThrows(keysStr.s) THEN Caught(s, me, SyntaxError)
                  ELSE Outcome(s.ss, s.ls,
                               [me EXCEPT !.keysArrayCache = ParseKeys(keysStr.s)],
                               s.heap, OkValue)
             ELSE Outcome(s.ss, s.ls, me, s.heap, OkValue)

\* checkStorage throws when this holds
checkStorageNever(me) == FALSE

checkStorage(me) == me.isDeleted

\* this.keyValueCache.set(key, v); the mutant keeps the value a key has
CacheSetOnce(me, key, v) ==
  IF key \in DOMAIN me.keyValueCache THEN me
  ELSE [me EXCEPT !.keyValueCache =
          [k \in DOMAIN @ \cup {key} |-> IF k = key THEN v ELSE @[k]]]

CacheSet(me, key, v) ==
  [me EXCEPT !.keyValueCache =
     [k \in DOMAIN @ \cup {key} |-> IF k = key THEN v ELSE @[k]]]

\* this.keyValueCache.delete(key)
CacheDeleteSkipped(me, key) == me

CacheDelete(me, key) ==
  [me EXCEPT !.keyValueCache = [k \in DOMAIN @ \ {key} |-> @[k]]]

\* the mutant takes the entry out of the store as it reads it
getItemSyncTaking(s, me, key) ==
  IF checkStorage(me) THEN Throws(s, me, DeletedError)
  ELSE LET valueStr == getItem(s.ss, keyName(me, key)) IN
       IF valueStr.t = "null"
       THEN Outcome(s.ss, s.ls, me, s.heap, Undefined)
       ELSE LET value == Materialize(s.heap, Member(JSONparse(valueStr.s), "value"))
            IN Outcome(removeItem(s.ss, keyName(me, key)), s.ls, me,
                       value.heap, value.val)

getItemSync(s, me, key) ==
  IF checkStorage(me) THEN Throws(s, me, DeletedError)
  ELSE IF me.useCache /\ key \in DOMAIN me.keyValueCache
  THEN LET c == structuredClone(s.heap, me.keyValueCache[key])
       IN Outcome(s.ss, s.ls, me, c.heap, c.val)
  ELSE IF ReadThrows(s) THEN Throws(s, me, SecurityError)
  ELSE LET valueStr == getItem(s.ss, keyName(me, key)) IN
       IF valueStr.t = "null"
       THEN Outcome(s.ss, s.ls, me, s.heap, Undefined)
       ELSE LET value == Materialize(s.heap, Member(JSONparse(valueStr.s), "value"))
                c == structuredClone(value.heap, value.val)
            IN IF me.useCache
               THEN Outcome(s.ss, s.ls,
                            CacheSet(me, key, c.val), c.heap, value.val)
               ELSE Outcome(s.ss, s.ls, me, value.heap, value.val)

\* const wrappedValue: WrappedValue = { value }
Wrapped(contents) == Obj(<<"value">>, <<contents>>)

\* if (key === this.keysArrayName)
IsReservedKeyNever(me, key) == FALSE

IsReservedKey(me, key) == key = me.keysArrayName

setItemSync(s, me, key, value) ==
  IF checkStorage(me) THEN Throws(s, me, DeletedError)
  ELSE IF IsReservedKey(me, key) THEN Throws(s, me, ReservedKeyError(key))
  ELSE LET ka == KeysArrayOf(s, me) IN
       IF ka.err.t = "error" THEN Throws(s, me, ka.err)
       ELSE LET isNew == ~Includes(ka.keys, key)
                keysArray == IF isNew THEN Push(ka.keys, key) ELSE ka.keys
                ss1 == IF isNew
                       THEN setItem(s.ss, me.keysArrayName,
                                    StringifyKeys(keysArray))
                       ELSE s.ss
                \* with the cache on keysArray is keysArrayCache itself, so the
                \* push above has already changed it, whatever the writes do
                me1 == IF ka.me.useCache
                       THEN [ka.me EXCEPT !.keysArrayCache = keysArray]
                       ELSE ka.me
                ss2 == setItem(ss1, keyName(me, key),
                               JSONstringify(Wrapped(Deref(s.heap, value))))
                c == structuredClone(s.heap, value)
            IN IF isNew /\ WriteThrows(s, 1) THEN Throws(s, me1, StoreError(s))
               ELSE IF WriteThrows(s, IF isNew THEN 2 ELSE 1)
               THEN [Throws(s, me1, StoreError(s)) EXCEPT !.ss = ss1]
               ELSE IF me1.useCache
               THEN Outcome(ss2, s.ls, CacheSet(me1, key, c.val), c.heap, Undefined)
               ELSE Outcome(ss2, s.ls, me1, s.heap, Undefined)

removeItemSync(s, me, key) ==
  IF checkStorage(me) THEN Throws(s, me, DeletedError)
  ELSE LET ka == KeysArrayOf(s, me) IN
       IF ka.err.t = "error" THEN Throws(s, me, ka.err)
       ELSE LET updatedKeysArray == FilterOut(ka.keys, key)
                ss1 == setItem(s.ss, me.keysArrayName,
                               StringifyKeys(updatedKeysArray))
                ss2 == removeItem(ss1, keyName(me, key))
            IN IF WriteThrows(s, 1) THEN Throws(s, ka.me, StoreError(s))
               ELSE IF ka.me.useCache
               THEN Outcome(ss2, s.ls,
                            [CacheDelete(ka.me, key) EXCEPT
                               !.keysArrayCache = updatedKeysArray],
                            s.heap, Undefined)
               ELSE Outcome(ss2, s.ls, ka.me, s.heap, Undefined)

clearSync(s, me) ==
  IF checkStorage(me) THEN Throws(s, me, DeletedError)
  ELSE LET ka == KeysArrayOf(s, me) IN
       IF ka.err.t = "error" THEN Throws(s, me, ka.err)
       ELSE LET ss1 == RemoveEach(s.ss, me.storageName, ka.keys)
                ss2 == setItem(ss1, me.keysArrayName, StringifyKeys(<<>>))
            IN IF ReadThrows(s) THEN Throws(s, ka.me, SecurityError)
               ELSE IF WriteThrows(s, 1)
               THEN [Throws(s, ka.me, StoreError(s)) EXCEPT !.ss = ss1]
               ELSE IF ka.me.useCache
               THEN Outcome(ss2, s.ls,
                            [ka.me EXCEPT !.keyValueCache = EmptyMap,
                                          !.keysArrayCache = <<>>],
                            s.heap, Undefined)
               ELSE Outcome(ss2, s.ls, ka.me, s.heap, Undefined)

sizeSync(s, me) ==
  IF checkStorage(me) THEN Throws(s, me, DeletedError)
  ELSE LET ka == KeysArrayOf(s, me) IN
       IF ka.err.t = "error" THEN Throws(s, me, ka.err)
       ELSE Outcome(s.ss, s.ls, ka.me, s.heap, Num(Len(ka.keys)))

\* keysArray[index]: the array is indexed from 0, and undefined outside it;
\* the mutant is keysArray.at(index), which counts a negative index from the
\* end
AtFromEnd(keys, index) ==
  LET j == IF index < 0 THEN Len(keys) + index ELSE index
  IN IF j >= 0 /\ j < Len(keys) THEN Str(keys[j + 1]) ELSE Undefined

At(keys, index) ==
  IF index >= 0 /\ index < Len(keys) THEN Str(keys[index + 1]) ELSE Undefined

keySync(s, me, index) ==
  IF checkStorage(me) THEN Throws(s, me, DeletedError)
  ELSE LET ka == KeysArrayOf(s, me) IN
       IF ka.err.t = "error" THEN Throws(s, me, ka.err)
       ELSE Outcome(s.ss, s.ls, ka.me, s.heap, At(ka.keys, index))

deleteStorageSync(s, me) ==
  LET c == clearSync(s, me) IN
  IF c.thrown THEN c
  ELSE Outcome(c.ss, removeItem(c.ls, me.keysArrayName),
               [c.me EXCEPT !.isDeleted = TRUE], c.heap, Undefined)

(***************************************************************************)
(* The caller: the objects it makes and changes, and what it passes.       *)
(***************************************************************************)
\* { c: [40, 42] }, and the same object after obj.c = [30]
ObjectLiteral == Obj(<<"c">>, <<Arr(<<Num(40), Num(42)>>)>>)
MutatedObject == Obj(<<"c">>, <<Arr(<<Num(30)>>)>>)

NoCall ==
  [op |-> "none", i |-> 0, key |-> "", index |-> 0, before |-> 0, ret |-> Undefined,
   thrown |-> FALSE, fault |-> 0]

\* the references the instances and the caller hold
CacheRefs(me) ==
  {me.keyValueCache[k].addr : k \in {x \in DOMAIN me.keyValueCache : IsRef(me.keyValueCache[x])}}

Roots(insts, h) ==
  UNION {CacheRefs(insts[i]) : i \in DOMAIN insts} \cup (IF IsRef(h) THEN {h.addr} ELSE {})

\* the heap without the objects nothing refers to any more
Collect(h, roots) == [a \in DOMAIN h \cap roots |-> h[a]]

\* the stores and the heap as a method finds them, the stores working
Host == [ss |-> sessionStorage, ls |-> localStorage, heap |-> heap, fault |-> 0]

\* the same with the store failing as f says
HostWith(f) == [Host EXCEPT !.fault = f]

\* how the store may fail during a call: not at all, unless world.faulty
Faults == IF world.faulty THEN {-1, 0, 1, 2} ELSE {0}

CanCall == opsLeft # 0
Called == opsLeft' = IF opsLeft > 0 THEN opsLeft - 1 ELSE opsLeft

\* the state after instance i's method has left outcome o; the caller keeps
\* the object a get returned to it
Apply(i, op, key, index, o) ==
  LET insts == [inst EXCEPT ![i] = o.me]
      h == IF op = "get" /\ IsRef(o.ret) THEN o.ret ELSE held
  IN /\ sessionStorage' = o.ss
     /\ localStorage' = o.ls
     /\ inst' = insts
     /\ held' = h
     /\ heap' = Collect(o.heap, Roots(insts, h))
     /\ last' = [op |-> op, i |-> i, key |-> key, index |-> index,
                 before |-> IF op \in {"remove", "clear", "deleteStorage"}
                            THEN Len(order[i]) ELSE 0,
                 ret |-> Deref(o.heap, o.ret),
                 thrown |-> o.thrown,
                 fault |-> o.fault]
     /\ Called
     /\ UNCHANGED <<setup, world>>

\* const a = { c: [40, 42] }
NewObject ==
  /\ CanCall
  /\ Called
  /\ LET a == NewAddr(heap)
         h == [x \in DOMAIN heap \cup {a} |-> IF x = a THEN ObjectLiteral ELSE heap[x]]
     IN /\ held' = Ref(a)
        /\ heap' = Collect(h, Roots(inst, Ref(a)))
  /\ UNCHANGED <<sessionStorage, localStorage, inst, setup, last, order, expected,
                 world>>

\* a.c = [30], on the object the caller holds
MutateHeld ==
  /\ CanCall
  /\ Called
  /\ IsRef(held)
  /\ heap[held.addr] # MutatedObject
  /\ heap' = [heap EXCEPT ![held.addr] = MutatedObject]
  /\ UNCHANGED <<sessionStorage, localStorage, inst, setup, held, last, order,
                 expected, world>>

\* what the caller may pass to set: a value of world.values and, where
\* world.objects says so, the object it holds
ArgValues == world.values \cup (IF world.objects /\ IsRef(held) THEN {held} ELSE {})

(***************************************************************************)
(* The calls.  order and expected record what the caller has asked for:    *)
(* the keys it has set and not removed, in the order of their first set,   *)
(* and the contents it passed to the last set of each.                     *)
(***************************************************************************)
Failed(o) == o.thrown

InitSync(i) ==
  /\ ~inst[i].ready
  /\ CanCall
  /\ \E f \in Faults : Apply(i, "init", "", 0, initSync(HostWith(f), inst[i], setup[i]))
  /\ UNCHANGED <<order, expected>>

\* the caller drops instance i and makes a new SessionStorageInterface in
\* its place, to be initialised with the same setup: a new session over the
\* store the old one leaves behind
NewSession(i) ==
  /\ inst[i].ready
  /\ CanCall
  /\ Called
  /\ inst' = [inst EXCEPT ![i] = NewInterface]
  /\ heap' = Collect(heap, Roots(inst', held))
  /\ last' = [NoCall EXCEPT !.op = "new", !.i = i]
  /\ UNCHANGED <<sessionStorage, localStorage, setup, held, order, expected, world>>

GetItemSync(i, key) ==
  /\ inst[i].ready
  /\ CanCall
  /\ \E f \in Faults : Apply(i, "get", key, 0, getItemSync(HostWith(f), inst[i], key))
  /\ UNCHANGED <<order, expected>>

SetItemSync(i, key, value) ==
  /\ inst[i].ready
  /\ CanCall
  /\ \E f \in Faults : LET o == setItemSync(HostWith(f), inst[i], key, value) IN
     /\ Apply(i, "set", key, 0, o)
     /\ IF Failed(o) THEN UNCHANGED <<order, expected>>
        ELSE /\ order' = [order EXCEPT ![i] =
                            IF \E j \in 1..Len(@) : @[j] = key THEN @ ELSE Append(@, key)]
             /\ expected' = [expected EXCEPT ![i] =
                               [k \in DOMAIN @ \cup {key} |->
                                  IF k = key THEN Deref(heap, value) ELSE @[k]]]

RemoveItemSync(i, key) ==
  /\ inst[i].ready
  /\ CanCall
  /\ \E f \in Faults : LET o == removeItemSync(HostWith(f), inst[i], key) IN
     /\ Apply(i, "remove", key, 0, o)
     /\ IF Failed(o) THEN UNCHANGED <<order, expected>>
        ELSE /\ order' = [order EXCEPT ![i] = SelectSeq(@, LAMBDA k : k # key)]
             /\ expected' = [expected EXCEPT ![i] = [k \in DOMAIN @ \ {key} |-> @[k]]]

ClearSync(i) ==
  /\ inst[i].ready
  /\ CanCall
  /\ \E f \in Faults : LET o == clearSync(HostWith(f), inst[i]) IN
     /\ Apply(i, "clear", "", 0, o)
     /\ IF Failed(o) THEN UNCHANGED <<order, expected>>
        ELSE /\ order' = [order EXCEPT ![i] = <<>>]
             /\ expected' = [expected EXCEPT ![i] = EmptyMap]

SizeSync(i) ==
  /\ inst[i].ready
  /\ CanCall
  /\ \E f \in Faults : Apply(i, "size", "", 0, sizeSync(HostWith(f), inst[i]))
  /\ UNCHANGED <<order, expected>>

KeySync(i, index) ==
  /\ inst[i].ready
  /\ CanCall
  /\ \E f \in Faults : Apply(i, "key", "", index, keySync(HostWith(f), inst[i], index))
  /\ UNCHANGED <<order, expected>>

DeleteStorageSync(i) ==
  /\ inst[i].ready
  /\ CanCall
  /\ \E f \in Faults : LET o == deleteStorageSync(HostWith(f), inst[i]) IN
     /\ Apply(i, "deleteStorage", "", 0, o)
     /\ IF Failed(o) THEN UNCHANGED <<order, expected>>
        ELSE /\ order' = [order EXCEPT ![i] = <<>>]
             /\ expected' = [expected EXCEPT ![i] = EmptyMap]

\* the indexes key is called with: one before the array and up to one past
\* the most keys it can hold
Indexes == -1..Cardinality(world.keys)

Next ==
  \/ NewObject
  \/ MutateHeld
  \/ \E i \in DOMAIN inst : InitSync(i)
  \/ \E i \in DOMAIN inst : NewSession(i)
  \/ \E i \in DOMAIN inst : \E key \in world.keys : GetItemSync(i, key)
  \/ \E i \in DOMAIN inst : \E key \in world.keys \cup {inst[i].keysArrayName} :
       \E value \in ArgValues : SetItemSync(i, key, value)
  \/ \E i \in DOMAIN inst : \E key \in world.keys : RemoveItemSync(i, key)
  \/ \E i \in DOMAIN inst : ClearSync(i)
  \/ \E i \in DOMAIN inst : SizeSync(i)
  \/ \E i \in DOMAIN inst : \E index \in Indexes : KeySync(i, index)
  \/ \E i \in DOMAIN inst : DeleteStorageSync(i)

(***************************************************************************)
(* The initial states.  The session store holds an entry of another        *)
(* script, and the local store holds the keys arrays another library keeps *)
(* there under the same names.                                             *)
(***************************************************************************)
ForeignSession == [k \in {"other"} |-> "1"]

ForeignLocal(names) ==
  [k \in {"__" \o n \o "-keys-array" : n \in names} |-> "[\"x\"]"]

Setups(names, caches) == [name : names, useCache : caches]

InitWith(ids, setups, w, ops) ==
  /\ sessionStorage = ForeignSession
  /\ localStorage = ForeignLocal({"storage", "s", "s-t"})
  /\ inst = [i \in ids |-> NewInterface]
  /\ setup \in setups
  /\ heap = << >>
  /\ held = Undefined
  /\ last = NoCall
  /\ order = [i \in ids |-> <<>>]
  /\ expected = [i \in ids |-> EmptyMap]
  /\ opsLeft = ops
  /\ world = w

\* one instance named "s", with the cache on or off; the caller passes null,
\* a number and objects
Init ==
  InitWith({1},
           [{1} -> Setups({Str("s")}, {Bool(FALSE), Bool(TRUE)})],
           [keys |-> {"a", "t-a"}, values |-> {Null, Num(20)}, objects |-> TRUE,
            faulty |-> FALSE],
           -1)

Spec == Init /\ [][Next]_vars

\* one instance with the default name and three keys, to tell the orders of
\* the keys array apart; the caller passes a number
InitOrder ==
  InitWith({1},
           [{1} -> Setups({Undefined}, {Undefined, Bool(TRUE)})],
           [keys |-> {"a", "b", "c"}, values |-> {Num(20)}, objects |-> FALSE,
            faulty |-> FALSE],
           -1)

SpecOrder == InitOrder /\ [][Next]_vars

\* two instances whose names differ, the one a prefix of the other; the
\* caller passes undefined and a number, and takes MaxOps steps
InitTwo ==
  InitWith({1, 2},
           {su \in [{1, 2} -> Setups({Str("s"), Str("s-t")}, {Undefined, Bool(TRUE)})] :
              su[1].name # su[2].name},
           [keys |-> {"a", "t-a"}, values |-> {Undefined, Num(20)}, objects |-> FALSE,
            faulty |-> FALSE],
           MaxOps)

SpecTwo == InitTwo /\ [][Next]_vars

\* a session store in which another script has left a keys array of "s" that
\* is no JSON text
CorruptedSession ==
  [k \in {"other", "__s-keys-array"} |-> IF k = "other" THEN "1" ELSE ""]

\* one instance named "s", with the cache on or off, over a store that may
\* fail at any access and may hold a corrupted keys array; the caller passes
\* a number
InitFault ==
  /\ sessionStorage \in {ForeignSession, CorruptedSession}
  /\ localStorage = ForeignLocal({"storage", "s", "s-t"})
  /\ inst = [i \in {1} |-> NewInterface]
  /\ setup \in [{1} -> Setups({Str("s")}, {Bool(FALSE), Bool(TRUE)})]
  /\ heap = << >>
  /\ held = Undefined
  /\ last = NoCall
  /\ order = [i \in {1} |-> <<>>]
  /\ expected = [i \in {1} |-> EmptyMap]
  /\ opsLeft = -1
  /\ world = [keys |-> {"a"}, values |-> {Num(20)}, objects |-> FALSE,
              faulty |-> TRUE]

SpecFault == InitFault /\ [][Next]_vars

\* two instances of the same name "s", both with the cache on or both with
\* it off; the caller passes a number and takes MaxOps steps
InitShared ==
  InitWith({1, 2},
           {su \in [{1, 2} -> Setups({Str("s")}, {Bool(FALSE), Bool(TRUE)})] :
              su[1].useCache = su[2].useCache},
           [keys |-> {"a", "b"}, values |-> {Num(20)}, objects |-> FALSE,
            faulty |-> FALSE],
           MaxOps)

SpecShared == InitShared /\ [][Next]_vars

(***************************************************************************)
(* What the calls would return in the current state, and the persisted     *)
(* state of an instance's storage.                                         *)
(***************************************************************************)
Ids == DOMAIN inst

Live(i) == inst[i].ready /\ ~inst[i].isDeleted

\* the stores and the heap after the step
HostNext ==
  [ss |-> sessionStorage', ls |-> localStorage', heap |-> heap', fault |-> 0]

\* the contents get(key) returns
GetResultIn(s, me, key) ==
  LET o == getItemSync(s, me, key) IN Deref(o.heap, o.ret)

GetResult(i, key) == GetResultIn(Host, inst[i], key)
GetResultNext(i, key) == GetResultIn(HostNext, inst'[i], key)

SizeResult(i) == sizeSync(Host, inst[i]).ret
SizeResultNext(i) == sizeSync(HostNext, inst'[i]).ret

KeyResult(i, index) == keySync(Host, inst[i], index).ret
KeyResultNext(i, index) == keySync(HostNext, inst'[i], index).ret

HasRegistry(i) == inst[i].keysArrayName \in DOMAIN sessionStorage

\* the persisted keys array
RegistryIn(ss, me) == ParseKeys(ss[me.keysArrayName])

Registry(i) == RegistryIn(sessionStorage, inst[i])

StartsWith(s, prefix) ==
  Len(s) >= Len(prefix) /\ SubSeq(s, 1, Len(prefix)) = prefix

\* the physical keys of the session store in instance i's namespace
NamespacedEntries(i) ==
  {pk \in DOMAIN sessionStorage : StartsWith(pk, inst[i].storageName \o "-")}

InSeq(keys, k) == \E j \in 1..Len(keys) : keys[j] = k

NoDuplicates(keys) ==
  \A x, y \in 1..Len(keys) : keys[x] = keys[y] => x = y

\* a call of instance i
CallOf(i) ==
  \/ InitSync(i)
  \/ \E key \in world.keys : GetItemSync(i, key)
  \/ \E key \in world.keys \cup {inst[i].keysArrayName} :
       \E value \in ArgValues : SetItemSync(i, key, value)
  \/ \E key \in world.keys : RemoveItemSync(i, key)
  \/ ClearSync(i)
  \/ SizeSync(i)
  \/ \E index \in Indexes : KeySync(i, index)
  \/ DeleteStorageSync(i)

(***************************************************************************)
(* The claims.                                                             *)
(***************************************************************************)

\* C1: on a live instance, with the cache on or off, get(k) returns contents
\* equal to the value passed to the last set(k, v) as long as no remove(k),
\* clear or deleteStorage came in between; a stored null comes back as null,
\* not as undefined.  Stated of the result get(k) would give in every
\* reachable state, and of the result the last get did give.
C1_SetThenGet ==
  \A i \in Ids : Live(i) =>
    /\ \A k \in DOMAIN expected[i] : GetResult(i, k) = expected[i][k]
    /\ (last.op = "get" /\ last.i = i /\ last.key \in DOMAIN expected[i])
         => last.ret = expected[i][last.key]

\* a get that has returned the null that was set, from the cache
C1_Witness ==
  /\ last.op = "get" /\ last.i = 1 /\ Live(1)
  /\ inst[1].useCache
  /\ last.key \in DOMAIN expected[1]
  /\ expected[1][last.key] = Null
  /\ last.ret = Null

\* C2: for a single instance that is the only writer of its namespace, after
\* every call the persisted keys array has no duplicates and lists exactly
\* the keys k whose entry "{name}-{k}" is in the session store.
C2_RegistryInvariant ==
  \A i \in Ids : Live(i) =>
    /\ HasRegistry(i)
    /\ NoDuplicates(Registry(i))
    /\ NamespacedEntries(i)
         = {keyName(inst[i], Registry(i)[j]) : j \in 1..Len(Registry(i))}

\* a remove has left one of two keys in the keys array
C2_Witness ==
  /\ last.op = "remove" /\ last.before = 2 /\ Live(1)
  /\ Len(Registry(1)) = 1

\* C3: once deleteStorage() has completed on an instance, the deletion flag
\* stays set for as long as the caller keeps that instance (NewSession puts
\* another object in its place), and every later call on the instance fails
\* with 'This Storage was deleted!' and leaves both stores as they were.
C3_DeletedForever ==
  [][\A i \in Ids : (inst[i].isDeleted /\ ~NewSession(i)) =>
       /\ inst'[i].isDeleted
       /\ CallOf(i) => /\ last'.ret = DeletedError
                       /\ sessionStorage' = sessionStorage
                       /\ localStorage' = localStorage]_vars

\* a set on a deleted storage has failed
C3_Witness ==
  /\ inst[1].isDeleted
  /\ last.op = "set" /\ last.i = 1
  /\ last.ret = DeletedError

\* C4: after deleteStorage() the session store holds neither the keys array
\* "__{name}-keys-array" nor any entry "{name}-{k}" of the namespace.
C4_NamespaceGone ==
  \A i \in Ids : inst[i].isDeleted =>
    /\ ~HasRegistry(i)
    /\ NamespacedEntries(i) = {}

\* C5: with two instances of different names over the same session store, no
\* set, remove, clear or deleteStorage of the one changes what get(k), size()
\* and key(i) return on the other, nor the other's persisted keys array.
C5_Independent ==
  [][\A i, j \in Ids :
       (i # j /\ inst[j].ready /\ CallOf(i)
          /\ last'.op \in {"set", "remove", "clear", "deleteStorage"})
       => /\ \A k \in world.keys : GetResultNext(j, k) = GetResult(j, k)
          /\ SizeResultNext(j) = SizeResult(j)
          /\ \A index \in Indexes : KeyResultNext(j, index) = KeyResult(j, index)
          /\ sessionStorage'[inst[j].keysArrayName]
               = sessionStorage[inst[j].keysArrayName]]_vars

\* C6: for a single live instance that started on an empty namespace, size()
\* is the number of distinct keys set and not removed or cleared since; it is
\* 0 right after clear().  expected[i] has exactly those keys as its domain.
C6_Size ==
  \A i \in Ids : Live(i) =>
    /\ SizeResult(i) = Num(Cardinality(DOMAIN expected[i]))
    /\ (last.op = "size" /\ last.i = i)
         => last.ret = Num(Cardinality(DOMAIN expected[i]))
    /\ (last.op = "clear" /\ last.i = i) => SizeResult(i) = Num(0)

\* size() has answered 2 after two keys were set
C6_Witness ==
  /\ last.op = "size" /\ last.i = 1 /\ Live(1)
  /\ last.ret = Num(2)
  /\ Cardinality(DOMAIN expected[1]) = 2

\* C7: for a single live instance and every i with 0 <= i < size(), key(i) is
\* the i-th of the keys now present in the order of their first set: order[i]
\* appends a key when it is set while absent, leaves the sequence alone when
\* it is set again, and drops it on remove, keeping the order of the rest.
C7_KeyOrder ==
  \A i \in Ids : Live(i) =>
    /\ SizeResult(i) = Num(Len(order[i]))
    /\ \A index \in 0..(Len(order[i]) - 1) :
         KeyResult(i, index) = Str(order[i][index + 1])
    /\ (last.op = "key" /\ last.i = i /\ last.index \in 0..(Len(order[i]) - 1))
         => last.ret = Str(order[i][last.index + 1])

\* key(2) has returned the last of three keys, which are not in the order of
\* their names: a key was removed and set again, or set out of order
C7_Witness ==
  /\ last.op = "key" /\ last.i = 1 /\ Live(1)
  /\ order[1] = <<"b", "c", "a">>
  /\ last.index = 2
  /\ last.ret = Str("a")

\* no object in a cache is the object the caller holds
NoSharedReference ==
  \A i \in Ids : ~IsRef(held) \/ held.addr \notin CacheRefs(inst[i])

\* C8: with the cache on or off, changing the object that was passed to set
\* or the object a get returned changes the result of no later get, and the
\* cache never holds a reference the caller also holds.
C8_AliasingIsolation ==
  [][/\ NoSharedReference'
     /\ MutateHeld =>
          \A i \in Ids : \A k \in world.keys : GetResultNext(i, k) = GetResult(i, k)]_vars

\* the caller has changed the object it got from a get, and the cache holds
\* the object as it was set
C8_Witness ==
  /\ Live(1) /\ inst[1].useCache
  /\ last.op = "get" /\ last.ret = ObjectLiteral
  /\ IsRef(held) /\ heap[held.addr] = MutatedObject
  /\ last.key \in DOMAIN inst[1].keyValueCache
  /\ Deref(heap, inst[1].keyValueCache[last.key]) = ObjectLiteral

\* key k is absent from the storage of instance me
AbsentIn(s, me, k) ==
  /\ GetResultIn(s, me, k) = Undefined
  /\ ~InSeq(RegistryIn(s.ss, me), k)
  /\ ~InSeq(KeysArrayOf(s, me).keys, k)

\* C9: after remove(k) on a live instance get(k) returns undefined and k is
\* not in the keys array, and that stays so until the next set(k, _); the
\* remove changes the result of get for no other key.
C9_Remove ==
  [][\A i \in Ids : \A k \in world.keys :
       /\ (Live(i) /\ RemoveItemSync(i, k)) =>
            /\ AbsentIn(HostNext, inst'[i], k)
            /\ \A k2 \in world.keys \ {k} : GetResultNext(i, k2) = GetResult(i, k2)
       /\ (Live(i) /\ inst'[i].ready /\ ~inst'[i].isDeleted
             /\ AbsentIn(Host, inst[i], k)
             /\ ~(\E value \in ArgValues : SetItemSync(i, k, value)))
            => AbsentIn(HostNext, inst'[i], k)]_vars

\* a remove, with the cache on, of one of two keys that were set
C9_Witness ==
  /\ last.op = "remove" /\ last.i = 1 /\ last.before = 2 /\ Live(1)
  /\ inst[1].useCache
  /\ Cardinality(DOMAIN expected[1]) = 1
  /\ last.key \notin DOMAIN expected[1]

\* pk is the entry of a key of instance i's persisted keys array
IsRegisteredEntry(i, pk) ==
  \E j \in 1..Len(Registry(i)) : pk = inst[i].storageName \o "-" \o Registry(i)[j]

\* C10: after clear() on a live instance size() is 0, key(i) is undefined for
\* every i and get(k) is undefined for every key, cached or not; the entries
\* of the session store that are neither the keys array nor the entry of a
\* key in it are left as they were, and so is the local store.
C10_Clear ==
  [][\A i \in Ids : (Live(i) /\ ClearSync(i)) =>
       /\ SizeResultNext(i) = Num(0)
       /\ \A index \in Indexes : KeyResultNext(i, index) = Undefined
       /\ \A k \in world.keys : GetResultNext(i, k) = Undefined
       /\ \A pk \in DOMAIN sessionStorage :
            (pk # inst[i].keysArrayName /\ ~IsRegisteredEntry(i, pk))
            => pk \in DOMAIN sessionStorage' /\ sessionStorage'[pk] = sessionStorage[pk]
       /\ localStorage' = localStorage]_vars

\* a clear, with the cache on, of a storage that held two keys
C10_Witness ==
  /\ last.op = "clear" /\ last.i = 1 /\ last.before = 2 /\ Live(1)
  /\ inst[1].useCache
  /\ "other" \in DOMAIN sessionStorage

\* C11: initSync on a namespace whose keys array is in the store changes no
\* entry of the store, and the new instance, its cache empty, returns for
\* get(k), size() and key(i) what the instance before it had last set and
\* not removed (expected and order); initSync on a namespace without a keys
\* array adds it as "[]" and changes nothing else.
C11_Persistence ==
  [][\A i \in Ids : (InitSync(i) /\ last'.ret = OkValue) =>
       LET kan == inst'[i].keysArrayName IN
       IF kan \in DOMAIN sessionStorage
       THEN /\ sessionStorage' = sessionStorage
            /\ \A k \in world.keys :
                 GetResultNext(i, k) =
                   IF k \in DOMAIN expected[i] THEN expected[i][k] ELSE Undefined
            /\ SizeResultNext(i) = Num(Len(order[i]))
            /\ \A index \in Indexes :
                 KeyResultNext(i, index) =
                   IF index >= 0 /\ index < Len(order[i])
                   THEN Str(order[i][index + 1]) ELSE Undefined
       ELSE sessionStorage' =
              [pk \in DOMAIN sessionStorage \cup {kan} |->
                 IF pk = kan THEN "[]" ELSE sessionStorage[pk]]]_vars

\* a new session has been initialised over a storage that holds two keys
C11_Witness ==
  /\ last.op = "init" /\ last.i = 1 /\ last.ret = OkValue
  /\ inst[1].useCache
  /\ Len(order[1]) = 2
  /\ Registry(1) = order[1]

\* C12: set with the key "__{name}-keys-array" on a live instance throws the
\* 'cannot be used' error and leaves the session store (the keys array and
\* every entry), the local store and the instance with its cache as they were.
C12_ReservedKey ==
  [][\A i \in Ids : \A v \in ArgValues :
       (Live(i) /\ SetItemSync(i, inst[i].keysArrayName, v)) =>
         /\ last'.thrown
         /\ last'.ret = ReservedKeyError(inst[i].keysArrayName)
         /\ sessionStorage' = sessionStorage
         /\ localStorage' = localStorage
         /\ inst' = inst]_vars

\* the reserved key has been refused on a storage that holds a key in its cache
C12_Witness ==
  /\ Live(1) /\ inst[1].useCache
  /\ last.op = "set" /\ last.key = "__s-keys-array"
  /\ last.ret = ReservedKeyError("__s-keys-array")
  /\ Len(order[1]) = 1
  /\ DOMAIN inst[1].keyValueCache # {}

\* the persisted keys array and the entries of me's storage agree: the keys
\* array is in the store, and it lists exactly the keys that have an entry
AgreeIn(ss, me) ==
  /\ me.keysArrayName \in DOMAIN ss
  /\ ~ParseThrows(ss[me.keysArrayName])
  /\ \A j \in 1..Len(RegistryIn(ss, me)) : keyName(me, RegistryIn(ss, me)[j]) \in DOMAIN ss
  /\ \A pk \in DOMAIN ss :
       StartsWith(pk, me.storageName \o "-")
       => InSeq(RegistryIn(ss, me), SubSeq(pk, Len(me.storageName) + 2, Len(pk)))

\* C13: over a store whose accesses may throw, a call that completes without
\* throwing, made in a state where the persisted keys array and the entries
\* agree, leaves them agreeing, with the cache on and off, also after earlier
\* calls of the instance have failed.
C13_SuccessKeepsAgreement ==
  [][\A i \in Ids :
       (/\ inst[i].ready
        /\ AgreeIn(sessionStorage, inst[i])
        /\ CallOf(i)
        /\ ~last'.thrown)
       => AgreeIn(sessionStorage', inst'[i])]_vars

\* the payload of the entry stored under physical key pk
PayloadOf(ss, pk) == Member(JSONparse(ss[pk]), "value")

\* C14: for a live instance with the cache on that is the only writer of its
\* storage, over a store that does not fail, after every call keysArrayCache
\* equals the persisted keys array as a sequence, and every key of
\* keyValueCache has an entry in the store whose payload equals the contents
\* of the cached value.
C14_CacheMirror ==
  \A i \in Ids : (Live(i) /\ inst[i].useCache) =>
    /\ HasRegistry(i)
    /\ inst[i].keysArrayCache = Registry(i)
    /\ \A k \in DOMAIN inst[i].keyValueCache :
         /\ keyName(inst[i], k) \in DOMAIN sessionStorage
         /\ PayloadOf(sessionStorage, keyName(inst[i], k))
              = Deref(heap, inst[i].keyValueCache[k])

\* the cache holds two keys, one of them an object, the other just set
C14_Witness ==
  /\ Live(1) /\ inst[1].useCache
  /\ Len(inst[1].keysArrayCache) = 2
  /\ DOMAIN inst[1].keyValueCache = {"a", "t-a"}
  /\ IsRef(inst[1].keyValueCache["a"])
  /\ last.op = "set" /\ last.key = "t-a" /\ ~last.thrown

\* C15: initSync never throws.  When the store's read or write throws, or
\* JSON.parse throws on the keys array found, initSync returns that error as
\* a value; otherwise it returns Ok; an initSync that returns an error leaves
\* isDeleted unset and the store as it was.
C15_InitNeverThrows ==
  [][\A i \in Ids : InitSync(i) =>
       LET kan == inst'[i].keysArrayName
           parseFails == /\ kan \in DOMAIN sessionStorage
                         /\ inst'[i].useCache
                         /\ ParseThrows(sessionStorage[kan])
       IN /\ ~last'.thrown
          /\ (last'.fault # 0 \/ parseFails) => IsErr(last'.ret)
          /\ ~(last'.fault # 0 \/ parseFails) => last'.ret = OkValue
          /\ IsErr(last'.ret) => /\ ~inst'[i].isDeleted
                                 /\ sessionStorage' = sessionStorage]_vars

\* initSync has returned the error of a full store
C15_Witness ==
  /\ last.op = "init" /\ last.i = 1
  /\ last.ret = QuotaExceededError /\ last.fault = 1
  /\ ~last.thrown
  /\ ~inst[1].isDeleted

\* the instance of the same storage with the cache off: it never fills
\* keysArrayCache or keyValueCache
Twin(me) ==
  [me EXCEPT !.useCache = FALSE, !.keysArrayCache = <<>>, !.keyValueCache = EmptyMap]

\* the step has left the stores and the result that outcome o has
SameAs(o) ==
  /\ o.ss = sessionStorage'
  /\ o.ls = localStorage'
  /\ o.thrown = last'.thrown
  /\ Deref(o.heap, o.ret) = last'.ret

\* C16: every call of an instance with the cache on returns what the same
\* call of an instance with the cache off returns over the same stores, and
\* leaves the same stores.  Both start from the same stores, so by induction
\* over the calls they return the same and leave the same stores after every
\* sequence of calls.
C16_CacheTransparent ==
  [][\A i \in Ids :
       /\ (last'.op = "init" /\ InitSync(i) /\ inst'[i].useCache)
          => SameAs(initSync(Host, inst[i], [setup[i] EXCEPT !.useCache = Bool(FALSE)]))
       /\ (inst[i].ready /\ inst[i].useCache /\ last'.i = i) =>
            /\ \A k \in world.keys :
                 (last'.op = "get" /\ last'.key = k /\ GetItemSync(i, k))
                 => SameAs(getItemSync(Host, Twin(inst[i]), k))
            /\ \A k \in world.keys \cup {inst[i].keysArrayName} : \A v \in ArgValues :
                 (last'.op = "set" /\ last'.key = k /\ SetItemSync(i, k, v))
                 => SameAs(setItemSync(Host, Twin(inst[i]), k, v))
            /\ \A k \in world.keys :
                 (last'.op = "remove" /\ last'.key = k /\ RemoveItemSync(i, k))
                 => SameAs(removeItemSync(Host, Twin(inst[i]), k))
            /\ (last'.op = "clear" /\ ClearSync(i))
               => SameAs(clearSync(Host, Twin(inst[i])))
            /\ (last'.op = "size" /\ SizeSync(i))
               => SameAs(sizeSync(Host, Twin(inst[i])))
            /\ \A index \in Indexes :
                 (last'.op = "key" /\ last'.index = index /\ KeySync(i, index))
                 => SameAs(keySync(Host, Twin(inst[i]), index))
            /\ (last'.op = "deleteStorage" /\ DeleteStorageSync(i))
               => SameAs(deleteStorageSync(Host, Twin(inst[i])))]_vars

\* a get of a key whose value is in the cache has returned the object set
C16_Witness ==
  /\ Live(1) /\ inst[1].useCache
  /\ last.op = "get" /\ last.key = "a"
  /\ "a" \in DOMAIN inst[1].keyValueCache
  /\ last.ret = ObjectLiteral
  /\ Len(inst[1].keysArrayCache) = 2

\* instances i and j are two live instances of one storage
Sharing(i, j) ==
  /\ i # j /\ Live(i) /\ Live(j)
  /\ inst[i].storageName = inst[j].storageName

\* C17: with two live instances i and j of one name, both with the cache on,
\* once i has set a key k that j's keysArrayCache does not hold, a set by j
\* of another key that is new to j writes j's keysArrayCache over the
\* persisted keys array: the persisted keys array then omits k, whose entry
\* is still in the store, and size() or some key(index) of i and j disagree.
\* The interleaving init, init, i.set(a), j.set(b) gets there (C17_Witness).
C17_MirrorsDrift ==
  [][\A i, j \in Ids : \A k, k2 \in world.keys : \A v \in ArgValues :
       (/\ Sharing(i, j) /\ inst[i].useCache /\ inst[j].useCache
        /\ k # k2
        /\ InSeq(inst[i].keysArrayCache, k)
        /\ InSeq(Registry(j), k)
        /\ keyName(inst[j], k) \in DOMAIN sessionStorage
        /\ ~InSeq(inst[j].keysArrayCache, k)
        /\ ~InSeq(inst[j].keysArrayCache, k2)
        /\ last'.op = "set" /\ last'.key = k2
        /\ SetItemSync(j, k2, v))
       => /\ ~InSeq(RegistryIn(sessionStorage', inst'[j]), k)
          /\ keyName(inst[j], k) \in DOMAIN sessionStorage'
          /\ \/ SizeResultNext(i) # SizeResultNext(j)
             \/ \E index \in Indexes : KeyResultNext(i, index) # KeyResultNext(j, index)]_vars

\* instance 2 has set "b" after instance 1 has set "a": the persisted keys
\* array lists only "b", the entry of "a" is in the store, and key(0) differs
C17_Witness ==
  /\ Sharing(1, 2) /\ inst[1].useCache /\ inst[2].useCache
  /\ last.op = "set" /\ last.i = 2 /\ last.key = "b"
  /\ Registry(1) = <<"b">>
  /\ "s-a" \in DOMAIN sessionStorage
  /\ KeyResult(1, 0) = Str("a")
  /\ KeyResult(2, 0) = Str("b")

\* C18: with two live instances of one name that both have the cache off,
\* under every interleaving of their calls over a store that does not fail,
\* the persisted keys array has no duplicates and lists exactly the keys that
\* have an entry, and the instances return the same for get(k), size() and
\* key(index).
C18_CacheOffShared ==
  \A i, j \in Ids :
    (Sharing(i, j) /\ ~inst[i].useCache /\ ~inst[j].useCache) =>
      /\ NoDuplicates(Registry(i))
      /\ AgreeIn(sessionStorage, inst[i])
      /\ \A k \in world.keys : GetResult(i, k) = GetResult(j, k)
      /\ SizeResult(i) = SizeResult(j)
      /\ SizeResult(i) = Num(Len(Registry(i)))
      /\ \A index \in Indexes : KeyResult(i, index) = KeyResult(j, index)

\* each of the two instances has set one key, and both see two keys
C18_Witness ==
  /\ Sharing(1, 2) /\ ~inst[1].useCache /\ ~inst[2].useCache
  /\ order[1] = <<"a">> /\ order[2] = <<"b">>
  /\ Registry(1) = <<"a", "b">>
  /\ SizeResult(1) = Num(2) /\ SizeResult(2) = Num(2)
  /\ GetResult(1, "b") = Num(20)

\* C19: remove(k) on a live instance does not throw; when k is not in the
\* persisted keys array it leaves the session store, with the keys array and
\* every entry, as it was, and size(), key(index) and every get return what
\* they returned; and a second remove(k) right after changes neither the
\* stores nor the instance.
C19_RemoveAbsent ==
  [][\A i \in Ids : \A k \in world.keys :
       (Live(i) /\ last'.op = "remove" /\ last'.key = k /\ RemoveItemSync(i, k)) =>
         /\ ~last'.thrown
         /\ ~InSeq(Registry(i), k) =>
              /\ sessionStorage' = sessionStorage
              /\ localStorage' = localStorage
              /\ SizeResultNext(i) = SizeResult(i)
              /\ \A k2 \in world.keys : GetResultNext(i, k2) = GetResult(i, k2)
              /\ \A index \in Indexes : KeyResultNext(i, index) = KeyResult(i, index)
         /\ LET again == removeItemSync(HostNext, inst'[i], k)
            IN /\ ~again.thrown
               /\ again.ss = sessionStorage'
               /\ again.ls = localStorage'
               /\ again.me = inst'[i]]_vars

\* a key that is not stored has been removed from a storage that holds one
C19_Witness ==
  /\ Live(1) /\ inst[1].useCache
  /\ last.op = "remove" /\ last.key = "t-a" /\ ~last.thrown
  /\ last.before = 1
  /\ Registry(1) = <<"a">>
  /\ GetResult(1, "a") = Num(20)

\* C20: when set(k, v) of a key that the persisted keys array does not list
\* has written the keys array and the write of the wrapped value then throws
\* (the second setItem of the call), the error is thrown to the caller, the
\* persisted keys array lists k, size() counts it and key(index) returns it,
\* no entry of k is in the store and get(k) returns undefined.
C20_NonAtomicSet ==
  [][\A i \in Ids : \A k \in world.keys : \A v \in ArgValues :
       (/\ Live(i) /\ HasRegistry(i)
        /\ ~ParseThrows(sessionStorage[inst[i].keysArrayName])
        /\ ~InSeq(Registry(i), k)
        /\ last'.op = "set" /\ last'.key = k /\ last'.fault = 2
        /\ SetItemSync(i, k, v))
       => /\ last'.thrown /\ last'.ret = QuotaExceededError
          /\ InSeq(RegistryIn(sessionStorage', inst'[i]), k)
          /\ SizeResultNext(i) = Num(Len(RegistryIn(sessionStorage', inst'[i])))
          /\ \E index \in Indexes : KeyResultNext(i, index) = Str(k)
          /\ keyName(inst[i], k) \notin DOMAIN sessionStorage'
          /\ GetResultNext(i, k) = Undefined]_vars

\* me without what its cache holds
WithoutCache(me) == [me EXCEPT !.keysArrayCache = <<>>, !.keyValueCache = EmptyMap]

\* C21: get(k), size() and key(index) leave every entry of the session store,
\* the keys array and the values, and the local store as they were, with the
\* cache on or off; of the instance they change at most keysArrayCache and
\* keyValueCache, and they change no other instance.
C21_ReadOnly ==
  [][\A i \in Ids :
       (/\ last'.i = i /\ last'.op \in {"get", "size", "key"}
        /\ \/ \E k \in world.keys : last'.key = k /\ GetItemSync(i, k)
           \/ SizeSync(i)
           \/ \E index \in Indexes : last'.index = index /\ KeySync(i, index))
       => /\ sessionStorage' = sessionStorage
          /\ localStorage' = localStorage
          /\ WithoutCache(inst'[i]) = WithoutCache(inst[i])
          /\ \A j \in Ids \ {i} : inst'[j] = inst[j]]_vars

\* a get has read a stored number into the cache of a new session, the store
\* holding two keys
C21_Witness ==
  /\ Live(1) /\ inst[1].useCache
  /\ last.op = "get" /\ last.key = "t-a" /\ last.ret = Num(20)
  /\ DOMAIN inst[1].keyValueCache = {"t-a"}
  /\ Registry(1) = <<"a", "t-a">>

\* C22: no call of the adapter, deleteStorage() included, adds, changes or
\* removes an entry of the local store: the entry the local store holds
\* under "__{name}-keys-array" stays as it is.
C22_OnlySessionStore ==
  [][localStorage' = localStorage]_vars

\* C23: key(index) on a live instance with index below 0, equal to size() or
\* above it returns undefined and does not throw, with the cache on or off;
\* key(index) throws only on a deleted storage or, with the cache off, when
\* the keys array is not in the store.
C23_KeyOutOfRange ==
  [][\A i \in Ids : \A index \in Indexes :
       (/\ inst[i].ready
        /\ last'.i = i /\ last'.op = "key" /\ last'.index = index
        /\ KeySync(i, index))
       => /\ (Live(i) /\ (index < 0 \/ index >= SizeResult(i).n))
             => (~last'.thrown /\ last'.ret = Undefined)
          /\ last'.thrown
             => \/ inst[i].isDeleted
                \/ ~inst[i].useCache /\ ~HasRegistry(i)]_vars

\* key(-1) has returned undefined on a storage that holds two keys
C23_Witness ==
  /\ Live(1)
  /\ last.op = "key" /\ last.index = -1
  /\ last.ret = Undefined /\ ~last.thrown
  /\ SizeResult(1) = Num(2)
====
